---------------------------- MODULE Spec2Model ----------------------------
(***************************************************************************)
(* Model of iex_pcap_parser (src/iex_pcap_parser/src/main.rs): the IEX-TP  *)
(* header decoder, the length-prefixed message segmenter, the DEEP message *)
(* decoder, the tick projection and the driving loop of main.              *)
(*                                                                         *)
(* Bytes are naturals in 0..255.  Rust slices are 0-based: At(bytes, i) is *)
(* bytes[i].  A u16/u32/u64 value is kept at its width as the sequence of  *)
(* its base-256 digits, least significant first, so that no arithmetic of  *)
(* the model leaves the range of the type it models.                       *)
(***************************************************************************)
EXTENDS Naturals, Sequences, FiniteSets, TLC

VARIABLES
    overflow_checks,    \* the build: TRUE = integer overflow panics, FALSE = it wraps
    capture,            \* the packets of the capture file, in order
    cap_pos,            \* number of packets capture.next() has returned
    pc,                 \* position of main
    panic,              \* why the process aborted ("" while it runs)
    payload,            \* packet.payload of the packet being processed
    iex_header,         \* the header parse_header returned for it
    offset,             \* parse_body: offset
    message_seq_num,    \* parse_body: message_seq_num
    messages,           \* parse_body: messages (main consumes it front to back)
    stonks_ticks,       \* main: symbol -> ticks
    tick_type_count,    \* main: message type -> count
    packet_counter,     \* main: packet_counter
    tick_counter,       \* main: tick_counter
    attempted,          \* history: the records parse_body handed to parse_message, this packet
    break_at,           \* history: {k} once parse_body broke on a zero length read at k, else {}
    processed,          \* history: the messages main's for loop has consumed, whole run
    file_path,          \* the file name a trade date is asked for
    called,             \* the function it has been asked of ("" before the call)
    trade_date,         \* what the function returned
    h5_file,            \* main: the output container, None until it is opened
    datasets            \* the datasets of the container: symbol -> ticks written

vars == <<overflow_checks, capture, cap_pos, pc, panic, payload, iex_header, offset,
          message_seq_num, messages, stonks_ticks, tick_type_count, packet_counter,
          tick_counter, attempted, break_at, processed, file_path, called, trade_date,
          h5_file, datasets>>

(***************************************************************************)
(* Characters the code names, as u8.                                       *)
(***************************************************************************)
ch == [sp |-> 32, d0 |-> 48, d1 |-> 49, d5 |-> 53, d8 |-> 56,
       A |-> 65, B |-> 66, C |-> 67, D |-> 68, E |-> 69, H |-> 72, I |-> 73,
       L |-> 76, M |-> 77, N |-> 78, O |-> 79, P |-> 80, Q |-> 81, R |-> 82,
       S |-> 83, T |-> 84, X |-> 88, Z |-> 90]

Byte == 0..255

\* bytes[i], i counted from 0
At(bytes, i) == bytes[i + 1]

\* &bytes[from..]
SliceFrom(bytes, from) == SubSeq(bytes, from + 1, Len(bytes))

(***************************************************************************)
(* Fixed-width unsigned integers as little-endian base-256 digit sequences *)
(***************************************************************************)
\* the value n (small) as an unsigned integer of w bytes
RECURSIVE ToDigits(_, _)
ToDigits(n, w) == IF w = 0 THEN <<>> ELSE <<n % 256>> \o ToDigits(n \div 256, w - 1)

\* u16 as usize
RECURSIVE AsUsize(_)
AsUsize(x) == IF x = <<>> THEN 0 ELSE x[1] + 256 * AsUsize(Tail(x))

\* the byte widened to w bytes and not shifted
IndexOffset_NoShift(arr, off, w, index) ==
    [k \in 1..w |-> IF k = 1 THEN At(arr, off + index) ELSE 0]

\* ($arr[$offset + $index] as $type) << (8*($index)), $type of w bytes
IndexOffset(arr, off, w, index) ==
    [k \in 1..w |-> IF k = index + 1 THEN At(arr, off + index) ELSE 0]

\* the digits of x + y + carry, least significant first, followed by the carry out
RECURSIVE AddDigits(_, _, _)
AddDigits(x, y, carry) ==
    IF x = <<>> THEN <<carry>>
    ELSE LET s == x[1] + y[1] + carry IN
         <<s % 256>> \o AddDigits(Tail(x), Tail(y), s \div 256)

\* x + y at the width of x: the digits of the wrapped sum, and whether it overflowed
AddW(x, y) ==
    LET r == AddDigits(x, y, 0) IN
    [val |-> SubSeq(r, 1, Len(x)), overflow |-> r[Len(x) + 1] = 1]

\* the sum of the w shifted bytes, added left to right as the macros do
RECURSIVE SumIndexOffsets(_, _, _, _)
SumIndexOffsets(arr, off, w, n) ==
    IF n = 1 THEN IndexOffset(arr, off, w, 0)
    ELSE AddW(SumIndexOffsets(arr, off, w, n - 1), IndexOffset(arr, off, w, n - 1)).val

bytes_u16(arr, off) == SumIndexOffsets(arr, off, 2, 2)
\* a 32-bit decoder that adds only the two low bytes
bytes_u32_LowHalf(arr, off) == SumIndexOffsets(arr, off, 4, 2)
bytes_u32(arr, off) == SumIndexOffsets(arr, off, 4, 4)
bytes_u64(arr, off) == SumIndexOffsets(arr, off, 8, 8)

\* a < b for two integers of the same width
RECURSIVE LessW(_, _)
LessW(a, b) ==
    IF a = <<>> THEN FALSE
    ELSE LET n == Len(a) IN
         \/ a[n] < b[n]
         \/ a[n] = b[n] /\ LessW(SubSeq(a, 1, n - 1), SubSeq(b, 1, n - 1))

(***************************************************************************)
(* The code enumerations' from_u8                                          *)
(***************************************************************************)
NoneV == "None"

SystemEvent_from_u8(byte) ==
    CASE byte = ch.O -> "StartOfMessages"
      [] byte = ch.S -> "StartOfSystemHours"
      [] byte = ch.R -> "StartOfRegularMarketHours"
      [] byte = ch.M -> "EndOfRegularMarketHours"
      [] byte = ch.E -> "EndOfSystemHours"
      [] byte = ch.C -> "EndOfMessages"
      [] OTHER -> NoneV

LimitUpLimitDownTier_from_u8(byte) ==
    CASE byte = 0 -> "NotApplicable"
      [] byte = 1 -> "Tier1NmsStock"
      [] byte = 2 -> "Tier2NmsStock"
      [] OTHER -> NoneV

TradingStatus_from_u8(byte) ==
    CASE byte = ch.H -> "Halted"
      [] byte = ch.O -> "HaltReleasedIntoOrderAcceptancePeriod"
      [] byte = ch.P -> "PausedAndOrderAcceptancePeriod"
      [] byte = ch.T -> "Trading"
      [] OTHER -> NoneV

OperationalHaltStatus_from_u8(byte) ==
    CASE byte = ch.O -> "Halted"
      [] byte = ch.N -> "NotHalted"
      [] OTHER -> NoneV

ShortSalePriceTestStatus_from_u8(byte) ==
    CASE byte = 0 -> "NotInEffect"
      [] byte = 1 -> "InEffect"
      [] OTHER -> NoneV

\* a decoder of the short-sale detail byte that does not know ' ' (0x20)
Detail_from_u8_NoSpace(byte) ==
    CASE byte = ch.A -> "Activated"
      [] byte = ch.C -> "Continued"
      [] byte = ch.D -> "Deactivated"
      [] byte = ch.N -> "NotAvailable"
      [] OTHER -> NoneV

Detail_from_u8(byte) ==
    CASE byte = ch.sp -> "NoPriceTestInPlace"
      [] byte = ch.A -> "Activated"
      [] byte = ch.C -> "Continued"
      [] byte = ch.D -> "Deactivated"
      [] byte = ch.N -> "NotAvailable"
      [] OTHER -> NoneV

SecurityEvent_from_u8(byte) ==
    CASE byte = ch.O -> "OpeningProcessComplete"
      [] byte = ch.C -> "ClosingProcessComplete"
      [] OTHER -> NoneV

PriceLevelUpdateEventFlags_from_u8(byte) ==
    CASE byte = 0 -> "OrderBookIsProcessingAnEvent"
      [] byte = 1 -> "EventProcessingComplete"
      [] OTHER -> NoneV

PriceType_from_u8(byte) ==
    CASE byte = ch.Q -> "OfficialOpeningPrice"
      [] byte = ch.M -> "OfficialClosingPrice"
      [] OTHER -> NoneV

(***************************************************************************)
(* parse_message.  The result is None, Some(message), or the index panic   *)
(* of a read past the end of the slice it was handed.                      *)
(***************************************************************************)
None == [tag |-> "None"]
Some(m) == [tag |-> "Some", msg |-> m]
IndexPanic == [tag |-> "Panic"]

\* [bytes[10] as char, ..., bytes[17] as char]
SymbolChars(bytes) == [k \in 1..8 |-> At(bytes, 10 + (k - 1))]

\* [bytes[18] as char, ..., bytes[21] as char]
ReasonChars(bytes) == [k \in 1..4 |-> At(bytes, 18 + (k - 1))]

\* the length a Trade Report / Trade Break slice must have
TradeMinLen == 38

\* the arm of one message type; bytes has at least the 10 bytes of the common prefix
MessageBody(bytes, message_type, message_subtype) ==
    CASE message_type = ch.S ->
           LET system_event == SystemEvent_from_u8(message_subtype) IN
           IF system_event = NoneV THEN None
           ELSE Some([kind |-> "SystemEvent", system_event |-> system_event])
      [] message_type = ch.D ->
           IF Len(bytes) <= 30 THEN IndexPanic
           ELSE LET luld_tier == LimitUpLimitDownTier_from_u8(At(bytes, 30)) IN
                IF luld_tier = NoneV THEN None
                ELSE Some([kind |-> "SecurityDirectory",
                           flags |-> message_subtype,
                           symbol |-> SymbolChars(bytes),
                           round_lot_size |-> bytes_u32(bytes, 18),
                           adjusted_poc_price |-> bytes_u64(bytes, 22),
                           luld_tier |-> luld_tier])
      [] message_type = ch.H ->
           LET trading_status == TradingStatus_from_u8(message_subtype) IN
           IF trading_status = NoneV THEN None
           ELSE IF Len(bytes) <= 21 THEN IndexPanic
           ELSE Some([kind |-> "TradingStatus",
                      trading_status |-> trading_status,
                      symbol |-> SymbolChars(bytes),
                      reason |-> ReasonChars(bytes)])
      [] message_type = ch.O ->
           LET operational_halt_status == OperationalHaltStatus_from_u8(message_subtype) IN
           IF operational_halt_status = NoneV THEN None
           ELSE IF Len(bytes) <= 17 THEN IndexPanic
           ELSE Some([kind |-> "OperationalHaltStatus",
                      operational_halt_status |-> operational_halt_status,
                      symbol |-> SymbolChars(bytes)])
      [] message_type = ch.P ->
           LET short_sale_price_test_status == ShortSalePriceTestStatus_from_u8(message_subtype) IN
           IF short_sale_price_test_status = NoneV THEN None
           ELSE IF Len(bytes) <= 18 THEN IndexPanic
           ELSE LET detail == Detail_from_u8(At(bytes, 18)) IN
                IF detail = NoneV THEN None
                ELSE Some([kind |-> "ShortSalePriceTestStatus",
                           short_sale_price_test_status |-> short_sale_price_test_status,
                           symbol |-> SymbolChars(bytes),
                           detail |-> detail])
      [] message_type = ch.E ->
           LET security_event == SecurityEvent_from_u8(message_subtype) IN
           IF security_event = NoneV THEN None
           ELSE IF Len(bytes) <= 17 THEN IndexPanic
           ELSE Some([kind |-> "SecurityEvent",
                      security_event |-> security_event,
                      symbol |-> SymbolChars(bytes)])
      [] message_type = ch.d8 \/ message_type = ch.d5 ->
           LET event_flags == PriceLevelUpdateEventFlags_from_u8(message_subtype) IN
           IF event_flags = NoneV THEN None
           ELSE IF Len(bytes) <= 29 THEN IndexPanic
           ELSE Some([kind |-> "PriceLevelUpdate",
                      event_flags |-> event_flags,
                      symbol |-> SymbolChars(bytes),
                      size |-> bytes_u32(bytes, 18),
                      price |-> bytes_u64(bytes, 22)])
      [] message_type = ch.T ->
           IF Len(bytes) >= TradeMinLen
           THEN Some([kind |-> "TradeReport",
                      symbol |-> SymbolChars(bytes),
                      size |-> bytes_u32(bytes, 18),
                      price |-> bytes_u64(bytes, 22),
                      trade_id |-> bytes_u64(bytes, 30),
                      sale_condition_flags |-> message_subtype])
           ELSE None
      [] message_type = ch.X ->
           LET price_type == PriceType_from_u8(message_subtype) IN
           IF price_type = NoneV THEN None
           ELSE IF Len(bytes) <= 25 THEN IndexPanic
           ELSE Some([kind |-> "OfficialPrice",
                      price_type |-> price_type,
                      symbol |-> SymbolChars(bytes),
                      official_price |-> bytes_u64(bytes, 18)])
      [] message_type = ch.B ->
           IF Len(bytes) >= TradeMinLen
           THEN Some([kind |-> "TradeBreak",
                      symbol |-> SymbolChars(bytes),
                      size |-> bytes_u32(bytes, 18),
                      price |-> bytes_u64(bytes, 22),
                      trade_id |-> bytes_u64(bytes, 30),
                      sale_condition_flags |-> message_subtype])
           ELSE None
      [] message_type = ch.A -> None
      [] OTHER -> None

parse_message(bytes, packet_num, seq_num) ==
    IF Len(bytes) <= 9 THEN IndexPanic      \* bytes[0], bytes[1], bytes_u64!(bytes, 2)
    ELSE LET message_type == At(bytes, 0)
             message_subtype == At(bytes, 1)
             timestamp == bytes_u64(bytes, 2)
             body == MessageBody(bytes, message_type, message_subtype)
         IN  IF body.tag = "Some"
             THEN Some([message_type |-> message_type,
                        message_subtype |-> message_subtype,
                        timestamp |-> timestamp,
                        body |-> body.msg,
                        packet_number |-> packet_num,
                        message_sequence_number |-> seq_num])
             ELSE body

(***************************************************************************)
(* parse_header                                                            *)
(***************************************************************************)
\* std::mem::size_of::<IexTpHeader>()
IexHeaderLength == 40

\* a header decoder that also fails for a payload of exactly 40 bytes
parse_header_Over40(bytes) ==
    IF Len(bytes) <= IexHeaderLength THEN None
    ELSE Some([version |-> At(bytes, 0),
               reserved |-> At(bytes, 1),
               message_protocol_id |-> bytes_u16(bytes, 2),
               channel_id |-> bytes_u32(bytes, 4),
               session_id |-> bytes_u32(bytes, 8),
               payload_length |-> bytes_u16(bytes, 12),
               message_count |-> bytes_u16(bytes, 14),
               stream_offset |-> bytes_u64(bytes, 16),
               first_message_sequence_number |-> bytes_u64(bytes, 24),
               send_time |-> bytes_u64(bytes, 32)])

parse_header(bytes) ==
    IF Len(bytes) < IexHeaderLength THEN None
    ELSE Some([version |-> At(bytes, 0),
               reserved |-> At(bytes, 1),
               message_protocol_id |-> bytes_u16(bytes, 2),
               channel_id |-> bytes_u32(bytes, 4),
               session_id |-> bytes_u32(bytes, 8),
               payload_length |-> bytes_u16(bytes, 12),
               message_count |-> bytes_u16(bytes, 14),
               stream_offset |-> bytes_u64(bytes, 16),
               first_message_sequence_number |-> bytes_u64(bytes, 24),
               send_time |-> bytes_u64(bytes, 32)])

\* a protocol test that lets every message-protocol id through
HeaderProtocolAny(hdr) == TRUE

\* a version test that lets every version through
HeaderVersionAny(hdr) == TRUE

\* assert!(iex_header.version == 0x1); assert!(iex_header.message_protocol_id == 0x8004)
HeaderVersionOk(hdr) == hdr.version = 1
HeaderProtocolOk(hdr) == hdr.message_protocol_id = <<4, 128>>

(***************************************************************************)
(* Tick projection                                                         *)
(***************************************************************************)
get_price_multiplier_for_timestamp(timestamp) == ToDigits(10000, 8)

\* a projection that also makes a tick of a Trade Break
to_serialized_tick_WithBreak(message) ==
    IF message.body.kind \in {"TradeReport", "TradeBreak", "PriceLevelUpdate"}
    THEN Some([message_type |-> message.message_type,
               message_subtype |-> message.message_subtype,
               timestamp |-> message.timestamp,
               size |-> message.body.size,
               price |-> message.body.price,
               price_multiplier |-> get_price_multiplier_for_timestamp(message.timestamp),
               packet_number |-> message.packet_number,
               message_sequence_number |-> message.message_sequence_number])
    ELSE None

to_serialized_tick(message) ==
    CASE message.body.kind = "TradeReport" ->
           Some([message_type |-> message.message_type,
                 message_subtype |-> message.message_subtype,
                 timestamp |-> message.timestamp,
                 size |-> message.body.size,
                 price |-> message.body.price,
                 price_multiplier |-> get_price_multiplier_for_timestamp(message.timestamp),
                 packet_number |-> message.packet_number,
                 message_sequence_number |-> message.message_sequence_number])
      [] message.body.kind = "PriceLevelUpdate" ->
           Some([message_type |-> message.message_type,
                 message_subtype |-> message.message_subtype,
                 timestamp |-> message.timestamp,
                 size |-> message.body.size,
                 price |-> message.body.price,
                 price_multiplier |-> get_price_multiplier_for_timestamp(message.timestamp),
                 packet_number |-> message.packet_number,
                 message_sequence_number |-> message.message_sequence_number])
      [] OTHER -> None

symbol(message) ==
    CASE message.body.kind = "TradeReport" -> Some(message.body.symbol)
      [] message.body.kind = "PriceLevelUpdate" -> Some(message.body.symbol)
      [] OTHER -> None

(***************************************************************************)
(* libfs and libiex: the trade date of a file name.  A str is the sequence *)
(* of its characters, all of them ASCII.                                   *)
(***************************************************************************)
Ok(v) == [tag |-> "Ok", val |-> v]
Err(e) == [tag |-> "Err", err |-> e]

\* the place of the last c in s, 0 when there is none
LastIndexOf(s, c) ==
    LET I == {i \in 1..Len(s) : s[i] = c} IN
    IF I = {} THEN 0 ELSE CHOOSE i \in I : \A j \in I : j <= i

\* the parts of s between its '/'
RECURSIVE SplitAtSlashes(_)
SplitAtSlashes(s) ==
    LET I == {i \in 1..Len(s) : s[i] = "/"} IN
    IF I = {} THEN <<s>>
    ELSE LET i == CHOOSE i \in I : \A j \in I : i <= j IN
         <<SubSeq(s, 1, i - 1)>> \o SplitAtSlashes(SubSeq(s, i + 1, Len(s)))

IsNormalComponent(c) == c # <<>> /\ c # <<".">>

\* Path::file_name: the last component, unless there is none or it is ".."
file_name(path) ==
    LET comps == SelectSeq(SplitAtSlashes(path), IsNormalComponent) IN
    IF comps = <<>> \/ comps[Len(comps)] = <<".", ".">> THEN None
    ELSE Some(comps[Len(comps)])

\* the file name before and after its last '.': no "after" when the name is ".."
\* or its only '.' comes first, no "before" when it has no '.'
rsplit_file_at_dot(file) ==
    LET i == LastIndexOf(file, ".") IN
    IF file = <<".", ".">> \/ i = 1 THEN [before |-> Some(file), after |-> None]
    ELSE IF i = 0 THEN [before |-> None, after |-> Some(file)]
    ELSE [before |-> Some(SubSeq(file, 1, i - 1)),
          after |-> Some(SubSeq(file, i + 1, Len(file)))]

\* Path::extension
extension(path) ==
    IF file_name(path) = None THEN None
    ELSE LET parts == rsplit_file_at_dot(file_name(path).msg) IN
         IF parts.before = None THEN None ELSE parts.after

\* Path::file_stem
file_stem(path) ==
    IF file_name(path) = None THEN None
    ELSE LET parts == rsplit_file_at_dot(file_name(path).msg) IN
         IF parts.before # None THEN parts.before ELSE parts.after

DigitChars == <<"0", "1", "2", "3", "4", "5", "6", "7", "8", "9">>
IsDigit(c) == \E k \in 1..10 : DigitChars[k] = c
DigitValue(c) == (CHOOSE k \in 1..10 : DigitChars[k] = c) - 1

RECURSIVE DecimalValue(_)
DecimalValue(s) ==
    IF s = <<>> THEN 0
    ELSE 10 * DecimalValue(SubSeq(s, 1, Len(s) - 1)) + DigitValue(s[Len(s)])

\* chrono's scan::number(s, 1, max): the number of the leading digits of s, at
\* least one and at most max of them, and what is left of s
scan_number(s, max) ==
    LET n == Cardinality({n \in 1..Len(s) : n <= max /\ \A k \in 1..n : IsDigit(s[k])}) IN
    IF n = 0 THEN None
    ELSE Some([value |-> DecimalValue(SubSeq(s, 1, n)), rest |-> SubSeq(s, n + 1, Len(s))])

is_leap_year(year) == year % 4 = 0 /\ (year % 100 # 0 \/ year % 400 = 0)

days_in_month(year, month) ==
    IF month = 2 THEN (IF is_leap_year(year) THEN 29 ELSE 28)
    ELSE IF month \in {4, 6, 9, 11} THEN 30 ELSE 31

\* chrono::NaiveDate::from_ymd_opt
from_ymd_opt(year, month, day) ==
    IF month \in 1..12 /\ day >= 1 /\ day <= days_in_month(year, month)
    THEN Some([year |-> year, month |-> month, day |-> day])
    ELSE None

\* chrono::NaiveDate::parse_from_str(s, "%Y%m%d") of an s without sign or space: a
\* year of one to four digits, a month and a day of one or two digits each, and
\* nothing after them
parse_from_str(s) ==
    LET year == scan_number(s, 4) IN
    IF year = None THEN Err("ParseError")
    ELSE LET month == scan_number(year.msg.rest, 2) IN
         IF month = None THEN Err("ParseError")
         ELSE LET day == scan_number(month.msg.rest, 2) IN
              IF day = None THEN Err("ParseError")
              ELSE IF day.msg.rest # <<>> THEN Err("ParseError")
              ELSE LET date == from_ymd_opt(year.msg.value, month.msg.value,
                                            day.msg.value) IN
                   IF date = None THEN Err("ParseError") ELSE Ok(date.msg)

yyyymmdd_prefix_from_stem(stem) ==
    IF parse_from_str(stem).tag = "Ok" THEN parse_from_str(stem)
    ELSE Err("InvalidDate")

\* &stem[0..8] of a str shorter than 8 bytes
StrSlicePanic == [tag |-> "Panic"]

PrefixLen == 8

trade_date_from_deep_pcap(deep_pcap) ==
    IF extension(deep_pcap) = None THEN Err("WrongFileExtension")
    ELSE IF extension(deep_pcap).msg \notin {<<"p", "c", "a", "p">>, <<"g", "z">>}
    THEN Err("WrongFileExtension")
    ELSE IF file_stem(deep_pcap) = None THEN Err("NoStem")
    ELSE IF Len(file_stem(deep_pcap).msg) < PrefixLen THEN StrSlicePanic
    ELSE yyyymmdd_prefix_from_stem(SubSeq(file_stem(deep_pcap).msg, 1, PrefixLen))

trade_date_from_h5(h5_path) ==
    IF extension(h5_path) = None THEN Err("WrongFileExtension")
    ELSE IF extension(h5_path).msg # <<"h", "5">> THEN Err("WrongFileExtension")
    ELSE IF file_stem(h5_path) = None THEN Err("NoStem")
    ELSE yyyymmdd_prefix_from_stem(file_stem(h5_path).msg)

\* the file names the functions are called with: a directory prefix, a stem and an
\* extension from a few of each
DirPrefixes == {<<>>, <<".", ".", "/", ".", ".", "/", "d", "a", "t", "a", "/", "i", "e", "x", "/">>, <<"d", ".", "h", "5", "/">>}
Stems == {<<"2", "0", "1", "9", "0", "7", "0", "3", "_", "I", "E", "X", "T", "P", "1", "_", "D", "E", "E", "P", "1", ".", "0">>,
          <<"2", "0", "1", "8", "0", "2", "2", "9">>,
          <<"2", "0", "1", "8", "0", "2", "2", "8">>,
          <<"2", "0", "1", "8", "1", "3", "2", "9">>,
          <<"2", "0", "0", "0", "0", "2", "2", "9">>,
          <<"1", "9", "0", "0", "0", "2", "2", "9">>,
          <<"2", "0", "1", "9", "0", "6", "3", "1">>,
          <<"2", "0", "1", "9", "0", "7", "0", "0">>,
          <<"a", "s", "d", "f">>,
          <<"2", "0", "1", "9", "1", "1", "1">>,
          <<"2", "0", "1", "9", "0", "7", "0">>,
          <<"2", "0", "1", "9", "0", "7", "0", "3", "x">>,
          <<"a", "s", "d", "f", "g", "h", "j", "k", "l">>,
          <<"2", "0", "1", "9">>}
Extensions == {<<>>, <<".", "p", "c", "a", "p">>, <<".", "g", "z">>, <<".", "p", "c", "a", "p", ".", "g", "z">>, <<".", "h", "5">>, <<".", "t", "x", "t">>}
DeepPcapName == <<"2", "0", "1", "9", "0", "7", "0", "3", "_", "I", "E", "X", "T", "P", "1", "_", "D", "E", "E", "P", "1", ".", "0", ".", "p", "c", "a", "p">>

FilePaths == { d \o st \o e : d \in DirPrefixes, st \in Stems, e \in Extensions }

(***************************************************************************)
(* The capture: what capture.next() and SlicedPacket::from_ethernet hand   *)
(* to main.  A packet is described by its header fields and the chunks of  *)
(* its message region; PacketBytes gives the payload bytes.                *)
(***************************************************************************)
MaxChunks == 2      \* chunks in the region of a packet of the general family

SymAAPL == <<ch.A, ch.A, ch.P, ch.L, ch.sp, ch.sp, ch.sp, ch.sp>>
SymIBM  == <<ch.I, ch.B, ch.M, ch.sp, ch.sp, ch.sp, ch.sp, ch.sp>>

\* byte i of a record when nothing else is said about it: all different
FillByte(i) == 128 + i

\* the first n bytes of a record: type, subtype, timestamp [2,10), symbol [10,18),
\* then bytes that differ from one another, with bytes 18 and 30 as given
RecordContent(type, subtype, sym, b18, b30, n) ==
    [k \in 1..n |->
        LET i == k - 1 IN
        CASE i = 0 -> type
          [] i = 1 -> subtype
          [] i >= 10 /\ i <= 17 -> sym[i - 9]
          [] i = 18 -> b18
          [] i = 30 -> b30
          [] OTHER -> FillByte(i)]

\* a chunk of a region: a two-byte length prefix len, then n bytes of a record
ChunkBytes(c) ==
    ToDigits(c.len, 2) \o RecordContent(c.type, c.subtype, c.sym, c.b18, c.b30, c.n)

RECURSIVE RegionBytes(_)
RegionBytes(chunks) ==
    IF chunks = <<>> THEN <<>> ELSE ChunkBytes(Head(chunks)) \o RegionBytes(Tail(chunks))

MaxU64 == [k \in 1..8 |-> 255]

\* the 40 header bytes
HeaderBytes(h) ==
    <<h.version, h.reserved>> \o h.proto \o h.channel_id \o h.session_id
        \o h.payload_length \o h.message_count \o h.stream_offset \o h.first_seq
        \o h.send_time

PacketBytes(p) == SubSeq(HeaderBytes(p.hdr) \o RegionBytes(p.chunks), 1, p.cut)

Chunk(len, n, type, subtype, sym, b18, b30) ==
    [len |-> len, n |-> n, type |-> type, subtype |-> subtype, sym |-> sym,
     b18 |-> b18, b30 |-> b30]

PluChunk     == Chunk(30, 30, ch.d8, 1, SymAAPL, FillByte(18), FillByte(30))
TradeChunk   == Chunk(38, 38, ch.T, ch.sp, SymIBM, FillByte(18), FillByte(30))
Trade37Chunk == Chunk(37, 37, ch.T, ch.sp, SymAAPL, FillByte(18), FillByte(30))
Trade30Chunk == Chunk(30, 30, ch.B, ch.sp, SymIBM, FillByte(18), FillByte(30))
UnknownChunk == Chunk(10, 10, ch.Z, 0, SymAAPL, FillByte(18), FillByte(30))
ZeroChunk    == Chunk(0, 8, ch.d8, 1, SymAAPL, 0, 0)
StubChunk    == Chunk(5, 1, ch.S, ch.O, SymAAPL, 0, 0)

GeneralChunks ==
    {PluChunk, TradeChunk, Trade37Chunk, Trade30Chunk, UnknownChunk, ZeroChunk, StubChunk}

RECURSIVE SeqsUpTo(_, _)
SeqsUpTo(S, n) ==
    IF n = 0 THEN {<<>>}
    ELSE LET shorter == SeqsUpTo(S, n - 1) IN
         shorter \cup {Append(q, x) : q \in shorter, x \in S}

Hdr(version, proto, first_seq) ==
    [version |-> version, reserved |-> 0, proto |-> proto,
     channel_id |-> <<1, 0, 0, 0>>, session_id |-> <<2, 0, 0, 0>>,
     payload_length |-> <<0, 0>>, message_count |-> <<0, 0>>,
     stream_offset |-> <<3, 0, 0, 0, 0, 0, 0, 0>>, first_seq |-> first_seq,
     send_time |-> <<4, 5, 6, 7, 8, 9, 10, 11>>]

DeepProtocolId == <<4, 128>>    \* 0x8004, little-endian
GoodHdr(first_seq) == Hdr(1, DeepProtocolId, first_seq)

Packet(hdr, chunks) ==
    [hdr |-> hdr, chunks |-> chunks,
     cut |-> Len(HeaderBytes(hdr) \o RegionBytes(chunks))]

BadVersionPacket == Packet(Hdr(2, DeepProtocolId, ToDigits(100, 8)), <<PluChunk>>)
BadProtocolPacket == Packet(Hdr(1, <<4, 0>>, ToDigits(100, 8)), <<PluChunk>>)
Short39Packet == [Packet(GoodHdr(ToDigits(100, 8)), <<>>) EXCEPT !.cut = 39]
EmptyPacket == [Packet(GoodHdr(ToDigits(100, 8)), <<>>) EXCEPT !.cut = 0]
PluPacket == Packet(GoodHdr(ToDigits(7, 8)), <<PluChunk>>)
TradePacket == Packet(GoodHdr(ToDigits(7, 8)), <<TradeChunk, PluChunk>>)

\* packets whose header is fatal: wrong version, wrong protocol id, 39 bytes, 0 bytes
FatalPackets == {BadVersionPacket, BadProtocolPacket, Short39Packet, EmptyPacket}

\* packets whose region ends early: in an Auction Information record of which 3
\* bytes are there, right after a length prefix, and in an unknown record whose
\* prefix says 40 bytes where 10 are there
AuctionStubPacket ==
    Packet(GoodHdr(ToDigits(100, 8)), <<PluChunk, Chunk(12, 3, ch.A, 0, SymAAPL, 0, 0)>>)
TrailingPrefixPacket ==
    Packet(GoodHdr(ToDigits(100, 8)), <<PluChunk, Chunk(5, 0, ch.S, ch.O, SymAAPL, 0, 0)>>)
OverstatedPacket ==
    Packet(GoodHdr(ToDigits(100, 8)), <<Chunk(40, 10, ch.Z, 0, SymAAPL, 0, 0)>>)
EdgePackets == {AuctionStubPacket, TrailingPrefixPacket, OverstatedPacket}

GeneralPackets ==
    { Packet(GoodHdr(s), cs) : s \in {ToDigits(100, 8), MaxU64},
                               cs \in SeqsUpTo(GeneralChunks, MaxChunks) }
    \cup FatalPackets \cup EdgePackets

\* what follows the first packet of a capture of the general family
FollowingPackets ==
    { <<>>, <<PluPacket>>, <<PluPacket, TradePacket>>, <<BadVersionPacket, PluPacket>>,
      <<Short39Packet, PluPacket>>, <<BadProtocolPacket>> }

\* captures of the general family: any first packet, then one of a few continuations
GeneralCaptures ==
    { <<p>> \o rest : p \in GeneralPackets, rest \in FollowingPackets }

\* captures of one packet whose region is one record of 38 bytes, for every
\* type, subtype and code byte of a candidate set
TypeBytes == {ch.S, ch.D, ch.H, ch.O, ch.P, ch.E, ch.d8, ch.d5, ch.T, ch.X, ch.B, ch.A, ch.Z}
SubtypeBytes == {ch.O, ch.S, ch.R, ch.M, ch.E, ch.C, ch.H, ch.P, ch.T, ch.N, ch.Q,
                 0, 1, 2, ch.d0, ch.Z}
DetailBytes == {ch.sp, ch.A, ch.C, ch.D, ch.N, ch.Z}
TierBytes == {0, 1, 2, 3}

RecordCaptures ==
    { << Packet(GoodHdr(s), <<Chunk(38, 38, t, st, SymAAPL, b18, b30)>>) >> :
        s \in {ToDigits(100, 8), MaxU64}, t \in TypeBytes, st \in SubtypeBytes,
        b18 \in DetailBytes, b30 \in TierBytes }

\* captures of one packet whose header has forty bytes that all differ, or that
\* header with one field all zeros or all ones, before no, one or two records
DistinctHdr ==
    [version |-> 1, reserved |-> 201, proto |-> DeepProtocolId,
     channel_id |-> <<11, 12, 13, 14>>, session_id |-> <<21, 22, 23, 24>>,
     payload_length |-> <<31, 32>>, message_count |-> <<41, 42>>,
     stream_offset |-> <<51, 52, 53, 54, 55, 56, 57, 58>>,
     first_seq |-> <<61, 62, 63, 64, 65, 66, 67, 68>>,
     send_time |-> <<71, 72, 73, 74, 75, 76, 77, 78>>]

\* the header field f, w bytes wide, with every byte b
Extreme(h, f, b) ==
    [h EXCEPT ![f] = IF f \in {"version", "reserved"} THEN b
                     ELSE [k \in 1..Len(h[f]) |-> b]]

HeaderFamily ==
    {DistinctHdr} \cup { Extreme(DistinctHdr, f, b) : f \in DOMAIN DistinctHdr, b \in {0, 255} }

HeaderCaptures ==
    { << Packet(h, cs) >> :
        h \in HeaderFamily, cs \in {<<>>, <<PluChunk>>, <<PluChunk, TradeChunk>>} }

\* the names load_capture_from_file accepts: the extension is pcap or gz
LoadableNames == { p \in FilePaths : extension(p) \in {Some(<<"p", "c", "a", "p">>), Some(<<"g", "z">>)} }

\* captures of up to two packets, with and without a packet of a fatal header
OutputCaptures ==
    { <<>>, <<PluPacket>>, <<PluPacket, TradePacket>>, <<BadVersionPacket, PluPacket>>,
      <<PluPacket, Short39Packet>>, <<PluPacket, BadProtocolPacket>>,
      <<TradePacket, BadVersionPacket>> }

(***************************************************************************)
(* main and parse_body as a state machine                                  *)
(***************************************************************************)
EmptyMap == [k \in {} |-> 0]

InitWith(captures, names) ==
    /\ overflow_checks \in BOOLEAN
    /\ capture \in captures
    /\ cap_pos = 0
    /\ pc = "next"
    /\ panic = ""
    /\ payload = <<>>
    /\ iex_header = None
    /\ offset = 0
    /\ message_seq_num = ToDigits(0, 8)
    /\ messages = <<>>
    /\ stonks_ticks = EmptyMap
    /\ tick_type_count = EmptyMap
    /\ packet_counter = 0
    /\ tick_counter = 0
    /\ attempted = <<>>
    /\ break_at = {}
    /\ processed = <<>>
    /\ file_path \in names
    /\ called = ""
    /\ trade_date = None
    /\ h5_file = None
    /\ datasets = EmptyMap

Init == InitWith(GeneralCaptures, {DeepPcapName})
InitRecords == InitWith(RecordCaptures, {DeepPcapName})
InitHeaders == InitWith(HeaderCaptures, {DeepPcapName})
InitOutput == InitWith(OutputCaptures, LoadableNames)

\* panic!/assert!/index out of bounds/overflow: the process ends
Abort(why) ==
    /\ pc' = "panicked"
    /\ panic' = why

\* a region cut at the payload length the header declares
Region_Declared(bytes) ==
    LET declared == IexHeaderLength + AsUsize(bytes_u16(bytes, 12)) IN
    SubSeq(bytes, IexHeaderLength + 1, IF declared < Len(bytes) THEN declared ELSE Len(bytes))

\* &packet.payload[std::mem::size_of::<IexTpHeader>()..]
Region(bytes) == SliceFrom(bytes, IexHeaderLength)

\* the locals of parse_body when it is entered
BodyStart(message_seq_num_start) ==
    [offset |-> 0, message_seq_num |-> message_seq_num_start, messages |-> <<>>,
     attempted |-> <<>>, outcome |-> "continue"]

\* while let Ok(raw_packet) = capture.next(): the header is parsed and asserted, and
\* parse_body is entered
ReadPacket ==
    /\ pc = "next"
    /\ cap_pos < Len(capture)
    /\ cap_pos' = cap_pos + 1
    /\ \E bytes \in {PacketBytes(capture[cap_pos + 1])} :
       \E hdr \in {parse_header(bytes)} :
           /\ payload' = bytes
           /\ iex_header' = hdr
           /\ attempted' = <<>>
           /\ break_at' = {}
           /\ IF hdr = None
              THEN /\ Abort("Failed to parse header because it was too short")
                   /\ UNCHANGED <<offset, message_seq_num, messages>>
              ELSE IF ~HeaderVersionOk(hdr.msg)
              THEN /\ Abort("assertion failed: iex_header.version == 0x1")
                   /\ UNCHANGED <<offset, message_seq_num, messages>>
              ELSE IF ~HeaderProtocolOk(hdr.msg)
              THEN /\ Abort("assertion failed: iex_header.message_protocol_id == 0x8004")
                   /\ UNCHANGED <<offset, message_seq_num, messages>>
              ELSE /\ pc' = "parse_body"
                   /\ panic' = panic
                   /\ offset' = BodyStart(hdr.msg.first_message_sequence_number).offset
                   /\ message_seq_num' = BodyStart(hdr.msg.first_message_sequence_number).message_seq_num
                   /\ messages' = BodyStart(hdr.msg.first_message_sequence_number).messages
    /\ UNCHANGED <<file_path, called, trade_date, h5_file, datasets>>
    /\ UNCHANGED <<overflow_checks, capture, stonks_ticks, tick_type_count,
                   packet_counter, tick_counter, processed>>

\* the loop condition of parse_body
MoreToSegment(bytes, off) == 2 + off < Len(bytes)

\* what parse_body hands to parse_message for the record at off
Handed(bytes, off) == SliceFrom(bytes, off)

\* an iteration that leaves the cursor behind the length prefix, not behind the record
SegmentRecord_NoAdvance(st, off2, message_length, response, next_seq, checks) ==
    [offset |-> off2,
     message_seq_num |-> next_seq.val,
     messages |-> st.messages,
     attempted |-> Append(st.attempted,
                          [at |-> off2, length |-> message_length,
                           seq |-> st.message_seq_num, response |-> response]),
     outcome |-> "continue"]

\* the rest of an iteration whose length is not zero: the record at off2 is decoded,
\* pushed when it decoded, and the cursor and the sequence number advance
SegmentRecord(st, off2, message_length, response, next_seq, checks) ==
    [offset |-> IF response = IndexPanic THEN off2 ELSE off2 + message_length,
     message_seq_num |-> IF response = IndexPanic \/ (next_seq.overflow /\ checks)
                         THEN st.message_seq_num ELSE next_seq.val,
     messages |-> IF response.tag = "Some" THEN Append(st.messages, response.msg)
                  ELSE st.messages,
     attempted |-> Append(st.attempted,
                          [at |-> off2, length |-> message_length,
                           seq |-> st.message_seq_num, response |-> response]),
     outcome |-> IF response = IndexPanic THEN "index out of bounds"
                 ELSE IF next_seq.overflow /\ checks THEN "attempt to add with overflow"
                 ELSE "continue"]

\* one iteration of the while loop of parse_body, from the locals st; checks says
\* whether the build panics on integer overflow
SegmentIter(bytes, packet_num, checks, st) ==
    IF bytes_u16(bytes, st.offset) = ToDigits(0, 2)
    THEN [st EXCEPT !.offset = st.offset + 2, !.outcome = "break"]
    ELSE SegmentRecord(st, st.offset + 2, AsUsize(bytes_u16(bytes, st.offset)),
                       parse_message(Handed(bytes, st.offset + 2), packet_num,
                                     st.message_seq_num),
                       AddW(st.message_seq_num, ToDigits(1, 8)), checks)

\* parse_body run to its end from the locals st
RECURSIVE parse_body_from(_, _, _, _)
parse_body_from(bytes, packet_num, checks, st) ==
    IF st.outcome # "continue" \/ ~MoreToSegment(bytes, st.offset) THEN st
    ELSE parse_body_from(bytes, packet_num, checks, SegmentIter(bytes, packet_num, checks, st))

parse_body(bytes, packet_num, message_seq_num_start, checks) ==
    parse_body_from(bytes, packet_num, checks, BodyStart(message_seq_num_start))

\* one iteration of the while loop of parse_body
SegmentStep ==
    /\ pc = "parse_body"
    /\ \E bytes \in {Region(payload)} :
       /\ MoreToSegment(bytes, offset)
       /\ \E st \in {SegmentIter(bytes, packet_counter, overflow_checks,
                                 [offset |-> offset, message_seq_num |-> message_seq_num,
                                  messages |-> messages, attempted |-> attempted,
                                  outcome |-> "continue"])} :
          /\ offset' = st.offset
          /\ message_seq_num' = st.message_seq_num
          /\ messages' = st.messages
          /\ attempted' = st.attempted
          /\ CASE st.outcome = "continue" -> UNCHANGED <<pc, panic, break_at>>
               [] st.outcome = "break" ->
                    \* break: parse_body returns messages
                    /\ pc' = "project"
                    /\ break_at' = {offset}
                    /\ UNCHANGED panic
               [] OTHER -> Abort(st.outcome) /\ UNCHANGED break_at
    /\ UNCHANGED <<file_path, called, trade_date, h5_file, datasets>>
    /\ UNCHANGED <<overflow_checks, capture, cap_pos, payload, iex_header, stonks_ticks,
                   tick_type_count, packet_counter, tick_counter, processed>>

\* the while condition fails: parse_body returns messages
SegmentDone ==
    /\ pc = "parse_body"
    /\ ~MoreToSegment(Region(payload), offset)
    /\ pc' = "project"
    /\ UNCHANGED <<file_path, called, trade_date, h5_file, datasets>>
    /\ UNCHANGED <<overflow_checks, capture, cap_pos, panic, payload, iex_header, offset,
                   message_seq_num, messages, stonks_ticks, tick_type_count,
                   packet_counter, tick_counter, attempted, break_at, processed>>

\* stonks_ticks.entry(symbol).or_insert(Vec::new()).push(tick)
PushTick(map, sym, tick) ==
    [k \in DOMAIN map \cup {sym} |->
        IF k = sym THEN Append(IF sym \in DOMAIN map THEN map[sym] ELSE <<>>, tick)
        ELSE map[k]]

\* *tick_type_count.entry(message_type).or_insert(0) += 1
CountType(map, type) ==
    [k \in DOMAIN map \cup {type} |->
        IF k = type THEN (IF type \in DOMAIN map THEN map[type] ELSE 0) + 1
        ELSE map[k]]

\* a dataset of the ticks under sym in the container
PushAll(map, sym, ticks) ==
    [k \in DOMAIN map \cup {sym} |-> IF k = sym THEN ticks ELSE map[k]]

\* one iteration of main's for message in messages
ProjectStep ==
    /\ pc = "project"
    /\ messages # <<>>
    /\ \E message \in {Head(messages)} :
       \E serialized_tick \in {to_serialized_tick(message)} :
       \E sym \in {symbol(message)} :
           /\ messages' = Tail(messages)
           /\ processed' = Append(processed, message)
           /\ IF serialized_tick # None /\ sym = None
              THEN /\ Abort("Trade tick needs to have a symbol")
                   /\ UNCHANGED <<stonks_ticks, tick_counter, tick_type_count>>
              ELSE /\ stonks_ticks' = IF serialized_tick # None
                                      THEN PushTick(stonks_ticks, sym.msg, serialized_tick.msg)
                                      ELSE stonks_ticks
                   /\ tick_counter' = tick_counter + 1
                   /\ tick_type_count' = CountType(tick_type_count, message.message_type)
                   /\ UNCHANGED <<pc, panic>>
    /\ UNCHANGED <<file_path, called, trade_date, h5_file, datasets>>
    /\ UNCHANGED <<overflow_checks, capture, cap_pos, payload, iex_header, offset,
                   message_seq_num, packet_counter, attempted, break_at>>

\* packet_counter += 1, back to capture.next()
PacketDone ==
    /\ pc = "project"
    /\ messages = <<>>
    /\ packet_counter' = packet_counter + 1
    /\ pc' = "next"
    /\ UNCHANGED <<file_path, called, trade_date, h5_file, datasets>>
    /\ UNCHANGED <<overflow_checks, capture, cap_pos, panic, payload, iex_header, offset,
                   message_seq_num, messages, stonks_ticks, tick_type_count,
                   tick_counter, attempted, break_at, processed>>

\* capture.next() is Err: the while let loop ends
EndOfCapture ==
    /\ pc = "next"
    /\ cap_pos = Len(capture)
    /\ pc' = "after_loop"
    /\ UNCHANGED <<file_path, called, trade_date, h5_file, datasets>>
    /\ UNCHANGED <<overflow_checks, capture, cap_pos, panic, payload, iex_header, offset,
                   message_seq_num, messages, stonks_ticks, tick_type_count,
                   packet_counter, tick_counter, attempted, break_at, processed>>

loop_vars ==
    <<overflow_checks, capture, cap_pos, payload, iex_header, offset, message_seq_num,
      messages, stonks_ticks, tick_type_count, packet_counter, tick_counter, attempted,
      break_at, processed, file_path, called>>

\* trade_date.format("%Y%m%d") followed by ".h5"
format_ymd(date) ==
    [k \in 1..8 |->
        DigitChars[1 + CASE k = 1 -> (date.year \div 1000) % 10
                         [] k = 2 -> (date.year \div 100) % 10
                         [] k = 3 -> (date.year \div 10) % 10
                         [] k = 4 -> date.year % 10
                         [] k = 5 -> date.month \div 10
                         [] k = 6 -> date.month % 10
                         [] k = 7 -> date.day \div 10
                         [] k = 8 -> date.day % 10]]
H5Name(date) == format_ymd(date) \o <<".", "h", "5">>

\* libiex::trade_date_from_deep_pcap(pcap).unwrap_or_else(|e| panic!("{:?}", e))
DeriveTradeDate ==
    /\ pc = "after_loop"
    /\ \E date \in {trade_date_from_deep_pcap(file_path)} :
          /\ trade_date' = date
          /\ IF date.tag = "Ok" THEN pc' = "open_output" /\ UNCHANGED panic
             ELSE IF date.tag = "Err" THEN Abort(date.err)
             ELSE Abort("byte index 8 is out of bounds")
    /\ UNCHANGED <<loop_vars, h5_file, datasets>>

\* hdf5::file::File::open(format!("{}.h5", ...), "w"): the container is created, or
\* the open fails and main panics
OpenOutput ==
    /\ pc = "open_output"
    /\ \/ /\ h5_file' = Some(H5Name(trade_date.val))
          /\ pc' = "write_output"
          /\ UNCHANGED panic
       \/ /\ Abort("Failed to open hdf5 handle")
          /\ UNCHANGED h5_file
    /\ UNCHANGED <<loop_vars, trade_date, datasets>>

\* one iteration of for (symbol, ticks) in &stonks_ticks, in any order of the map:
\* the dataset is created and written, or one of the two fails and main panics
WriteDataset ==
    /\ pc = "write_output"
    /\ \E sym \in DOMAIN stonks_ticks \ DOMAIN datasets :
          \/ /\ datasets' = PushAll(datasets, sym, stonks_ticks[sym])
             /\ UNCHANGED <<pc, panic>>
          \/ /\ Abort("Failed to create dataset")
             /\ UNCHANGED datasets
          \/ /\ datasets' = PushAll(datasets, sym, <<>>)
             /\ Abort("Failed to write ticks")
    /\ UNCHANGED <<loop_vars, trade_date, h5_file>>

\* every dataset is written: main logs the counts and returns
Finish ==
    /\ pc = "write_output"
    /\ DOMAIN stonks_ticks = DOMAIN datasets
    /\ pc' = "done"
    /\ UNCHANGED <<loop_vars, panic, trade_date, h5_file, datasets>>

Next ==
    \/ ReadPacket
    \/ SegmentStep
    \/ SegmentDone
    \/ ProjectStep
    \/ PacketDone
    \/ EndOfCapture
    \/ DeriveTradeDate
    \/ OpenOutput
    \/ WriteDataset
    \/ Finish

Spec == Init /\ [][Next]_vars
SpecRecords == InitRecords /\ [][Next]_vars
SpecHeaders == InitHeaders /\ [][Next]_vars
SpecOutput == InitOutput /\ [][Next]_vars

(***************************************************************************)
(* The two trade-date functions, each called once with a file name        *)
(***************************************************************************)
InitLib ==
    /\ overflow_checks = FALSE
    /\ capture = <<>>
    /\ cap_pos = 0
    /\ pc = "next"
    /\ panic = ""
    /\ payload = <<>>
    /\ iex_header = None
    /\ offset = 0
    /\ message_seq_num = ToDigits(0, 8)
    /\ messages = <<>>
    /\ stonks_ticks = EmptyMap
    /\ tick_type_count = EmptyMap
    /\ packet_counter = 0
    /\ tick_counter = 0
    /\ attempted = <<>>
    /\ break_at = {}
    /\ processed = <<>>
    /\ file_path \in FilePaths
    /\ called = ""
    /\ trade_date = None
    /\ h5_file = None
    /\ datasets = EmptyMap

main_vars ==
    <<overflow_checks, capture, cap_pos, pc, panic, payload, iex_header, offset,
      message_seq_num, messages, stonks_ticks, tick_type_count, packet_counter,
      tick_counter, attempted, break_at, processed, h5_file, datasets>>

CallTradeDateFromDeepPcap ==
    /\ called = ""
    /\ called' = "trade_date_from_deep_pcap"
    /\ trade_date' = trade_date_from_deep_pcap(file_path)
    /\ UNCHANGED <<file_path, main_vars>>

CallTradeDateFromH5 ==
    /\ called = ""
    /\ called' = "trade_date_from_h5"
    /\ trade_date' = trade_date_from_h5(file_path)
    /\ UNCHANGED <<file_path, main_vars>>

NextLib ==
    \/ CallTradeDateFromDeepPcap
    \/ CallTradeDateFromH5

SpecLib == InitLib /\ [][NextLib]_vars

(***************************************************************************)
(* Properties                                                              *)
(***************************************************************************)
\* the header's first-message-sequence-number of the packet being processed
FirstSeq == iex_header.msg.first_message_sequence_number

\* a packet has passed the header checks and parse_body has been entered for it
InBody ==
    \/ pc \in {"parse_body", "project"}
    \/ pc = "panicked" /\ attempted # <<>> /\ packet_counter < cap_pos

\* C1: the i-th record attempted in a packet (i = 0, 1, ...) is given sequence
\* number s + i, s the header's first sequence number, whether or not earlier
\* records decoded; the decoded messages' numbers are strictly increasing.
C1_SequenceIsStartPlusIndex ==
    InBody =>
        /\ \A i \in 1..Len(attempted) :
              \E sum \in {AddW(FirstSeq, ToDigits(i - 1, 8))} :
                  ~sum.overflow /\ attempted[i].seq = sum.val
        /\ \A i, j \in 1..Len(messages) :
              i < j => LessW(messages[i].message_sequence_number,
                             messages[j].message_sequence_number)

\* bytes with every byte after the first keep bytes replaced by b
ReplacedFrom(bytes, keep, b) ==
    [i \in 1..Len(bytes) |-> IF i <= keep THEN bytes[i] ELSE b]

\* C2: the decoder is handed only region[offset .. offset+L]: no decoded field
\* value and no accept/reject decision for a record depends on a byte at or
\* beyond offset+L.
C2_DecodesOnlyTheRecord ==
    \A i \in 1..Len(attempted) : \A b \in {0, 255} :
        attempted[i].response =
            parse_message(Handed(ReplacedFrom(Region(payload),
                                             attempted[i].at + attempted[i].length, b),
                                 attempted[i].at),
                          packet_counter, attempted[i].seq)

\* C3: a Trade Report or Trade Break record is rejected when its length prefix is
\* 37 or less and accepted when it is 38 or more, whatever follows the record.
C3_TradeLengthFloor ==
    \A i \in 1..Len(attempted) :
        At(Region(payload), attempted[i].at) \in {ch.T, ch.B} =>
            /\ attempted[i].length <= 37 => attempted[i].response = None
            /\ attempted[i].length >= 38 => attempted[i].response.tag = "Some"

\* C4: segmentation never aborts the run: a malformed or short record yields an
\* absent result.
C4_ShortRecordIsAbsent ==
    /\ \A i \in 1..Len(attempted) : attempted[i].response # IndexPanic
    /\ panic # "index out of bounds"

\* C5: when the segmenter reads a zero length prefix at k it stops there with the
\* messages decoded from the records before k, and no byte after k influences
\* the result.
C5_ZeroLengthStops ==
    \A k \in break_at :
        /\ \A i \in 1..Len(attempted) : attempted[i].at < k
        /\ \E bytes \in {Region(payload)} :
           \E run \in {parse_body(bytes, packet_counter, FirstSeq, overflow_checks)} :
              /\ run.outcome = "break" /\ run.offset = k + 2
              /\ \A b \in {0, 255} :
                    parse_body(ReplacedFrom(bytes, k + 2, b), packet_counter, FirstSeq,
                               overflow_checks).messages = run.messages

\* the bytes of the record of attempt a, as they lie in the region
RecordOf(a) == Handed(Region(payload), a.at)

\* the documented code sets
SystemEventCodes == {ch.O, ch.S, ch.R, ch.M, ch.E, ch.C}
TradingStatusCodes == {ch.H, ch.O, ch.P, ch.T}
OperationalHaltCodes == {ch.O, ch.N}
SecurityEventCodes == {ch.O, ch.C}
BinaryCodes == {0, 1}
PriceTypeCodes == {ch.Q, ch.M}
DetailCodes == {ch.sp, ch.A, ch.C, ch.D, ch.N}
TierCodes == {0, 1, 2}

\* the documented acceptance of a full-length record rec
DocumentedAccept(rec) ==
    LET type == At(rec, 0)
        subtype == At(rec, 1)
    IN  CASE type = ch.S -> subtype \in SystemEventCodes
          [] type = ch.H -> subtype \in TradingStatusCodes
          [] type = ch.O -> subtype \in OperationalHaltCodes
          [] type = ch.E -> subtype \in SecurityEventCodes
          [] type \in {ch.d8, ch.d5} -> subtype \in BinaryCodes
          [] type = ch.X -> subtype \in PriceTypeCodes
          [] type = ch.P -> subtype \in BinaryCodes /\ At(rec, 18) \in DetailCodes
          [] type = ch.D -> At(rec, 30) \in TierCodes
          [] type \in {ch.T, ch.B} -> TRUE
          [] OTHER -> FALSE

\* the documented variant of a type byte
DocumentedKind(type) ==
    CASE type = ch.S -> "SystemEvent"
      [] type = ch.D -> "SecurityDirectory"
      [] type = ch.H -> "TradingStatus"
      [] type = ch.O -> "OperationalHaltStatus"
      [] type = ch.P -> "ShortSalePriceTestStatus"
      [] type = ch.E -> "SecurityEvent"
      [] type \in {ch.d8, ch.d5} -> "PriceLevelUpdate"
      [] type = ch.T -> "TradeReport"
      [] type = ch.X -> "OfficialPrice"
      [] type = ch.B -> "TradeBreak"
      [] OTHER -> "none"

\* bytes [from, from + width) of rec
Field(rec, from, width) == SubSeq(rec, from + 1, from + width)

\* the fields of an accepted message m are the bytes of rec at the documented offsets
DocumentedFields(m, rec) ==
    /\ m.message_type = At(rec, 0)
    /\ m.message_subtype = At(rec, 1)
    /\ m.timestamp = Field(rec, 2, 8)
    /\ m.body.kind = DocumentedKind(At(rec, 0))
    /\ m.body.kind # "SystemEvent" => m.body.symbol = Field(rec, 10, 8)
    /\ m.body.kind \in {"PriceLevelUpdate", "TradeReport", "TradeBreak"} =>
          m.body.size = Field(rec, 18, 4) /\ m.body.price = Field(rec, 22, 8)
    /\ m.body.kind \in {"TradeReport", "TradeBreak"} => m.body.trade_id = Field(rec, 30, 8)
    /\ m.body.kind = "OfficialPrice" => m.body.official_price = Field(rec, 18, 8)
    /\ m.body.kind = "SecurityDirectory" =>
          /\ m.body.round_lot_size = Field(rec, 18, 4)
          /\ m.body.adjusted_poc_price = Field(rec, 22, 8)

\* C6: a full-length record of a supported type is accepted exactly when its
\* validated code bytes are in the documented set, and on acceptance the variant
\* matches the type byte and the fields are the input bytes at the documented
\* offsets.
C6_AcceptedIffDocumentedCodes ==
    \A i \in 1..Len(attempted) :
        \E rec \in {RecordOf(attempted[i])} :
            Len(rec) >= TradeMinLen =>
                /\ attempted[i].response # IndexPanic
                /\ attempted[i].response.tag = "Some" <=> DocumentedAccept(rec)
                /\ attempted[i].response.tag = "Some" =>
                      DocumentedFields(attempted[i].response.msg, rec)

\* a Short-Sale Price Test record with both codes valid has been accepted, and so
\* has been a Security Directory record
C6_Witness ==
    /\ Len(attempted) = 1
    /\ At(RecordOf(attempted[1]), 0) = ch.P
    /\ At(RecordOf(attempted[1]), 18) = ch.sp
    /\ attempted[1].response.tag = "Some"

\* the kinds that carry a tradable price and size
TickKinds == {"TradeReport", "PriceLevelUpdate"}

\* the ticks of all the per-symbol collections, as (symbol, position) pairs
TickPlaces ==
    UNION { { <<s, j>> : j \in 1..Len(stonks_ticks[s]) } : s \in DOMAIN stonks_ticks }

\* C7: a decoded message projects to a Tick if and only if its kind is Trade
\* Report or Price Level Update; a message of any other kind adds no entry to a
\* per-symbol tick collection.
C7_ProjectsIffTickKind ==
    /\ \A i \in 1..Len(processed) :
          to_serialized_tick(processed[i]) # None <=> processed[i].body.kind \in TickKinds
    /\ Cardinality(TickPlaces) =
          Cardinality({i \in 1..Len(processed) : processed[i].body.kind \in TickKinds})
    /\ \A i \in 1..Len(processed) :
          processed[i].body.kind \in TickKinds =>
              \E s \in DOMAIN stonks_ticks : \E j \in 1..Len(stonks_ticks[s]) :
                  /\ s = processed[i].body.symbol
                  /\ stonks_ticks[s][j].packet_number = processed[i].packet_number
                  /\ stonks_ticks[s][j].message_sequence_number =
                        processed[i].message_sequence_number

\* a Trade Break has gone through main's loop and no collection has an entry
C7_Witness ==
    /\ Len(processed) = 1
    /\ processed[1].body.kind = "TradeBreak"
    /\ DOMAIN stonks_ticks = {}
    /\ pc = "after_loop"

\* the payload of the j-th packet of the capture, j = 1, 2, ...
PayloadOf(j) == PacketBytes(capture[j])

\* bytes is a valid header followed by exactly one well-formed Price Level Update
\* record of 30 bytes
IsSinglePriceLevelUpdate(bytes) ==
    /\ Len(bytes) = IexHeaderLength + 2 + 30
    /\ At(bytes, 0) = 1
    /\ <<At(bytes, 2), At(bytes, 3)>> = DeepProtocolId
    /\ <<At(bytes, 40), At(bytes, 41)>> = ToDigits(30, 2)
    /\ At(bytes, 42) \in {ch.d8, ch.d5}
    /\ At(bytes, 43) \in BinaryCodes

\* the Tick of the Price Level Update record of such a packet, packet index idx
ExpectedTick(bytes, idx) ==
    [message_type |-> At(bytes, 42),
     message_subtype |-> At(bytes, 43),
     timestamp |-> Field(bytes, 44, 8),
     size |-> Field(bytes, 60, 4),
     price |-> Field(bytes, 64, 8),
     price_multiplier |-> ToDigits(10000, 8),
     packet_number |-> idx,
     message_sequence_number |-> Field(bytes, 24, 8)]

MismatchedHeader(bytes) ==
    /\ Len(bytes) >= 40
    /\ At(bytes, 0) # 1 \/ <<At(bytes, 2), At(bytes, 3)>> # <<4, 128>>

\* nothing of the packet of index idx or of a later one has been accepted: no
\* tick of it is in a collection and no message of it has been counted
NothingAcceptedFrom(idx) ==
    /\ \A p \in TickPlaces : stonks_ticks[p[1]][p[2]].packet_number < idx
    /\ \A i \in 1..Len(processed) : processed[i].packet_number < idx
    /\ \A t \in DOMAIN tick_type_count :
          tick_type_count[t] =
              Cardinality({i \in 1..Len(processed) : processed[i].message_type = t})
    /\ tick_counter = Len(processed)

\* the run has ended at the j-th packet of the capture: no later one is read
FatalAt(j) == pc = "panicked" /\ cap_pos = j /\ packet_counter = j - 1

\* C9: a packet whose header has a version other than 1 or a message-protocol
\* id other than 0x8004 is fatal for the run before any message of it is
\* accepted: no tick of that packet or of a later one is appended to a
\* collection and no message-type counter is incremented for it.
C9_MismatchedHeaderIsFatal ==
    \A j \in 1..cap_pos :
        MismatchedHeader(PayloadOf(j)) =>
            /\ FatalAt(j)
            /\ attempted = <<>>
            /\ NothingAcceptedFrom(j - 1)

\* the second packet has the wrong version, the run has ended there with the
\* first packet's tick in its collection and a third packet never read
C9_Witness ==
    /\ Len(capture) = 3 /\ cap_pos = 2 /\ pc = "panicked"
    /\ At(payload, 0) = 2
    /\ Cardinality(TickPlaces) >= 1

\* C10: the header decoder fails for every payload shorter than 40 bytes and
\* returns a header for every payload of 40 bytes or more, and a header failure
\* is fatal for the run: the region is never segmented and no later packet is
\* processed.
C10_ShortHeaderIsFatal ==
    /\ \A j \in 1..cap_pos :
          \E bytes \in {PayloadOf(j)} :
              /\ parse_header(bytes) = None <=> Len(bytes) < 40
              /\ Len(bytes) < 40 =>
                    /\ FatalAt(j)
                    /\ attempted = <<>>
                    /\ NothingAcceptedFrom(j - 1)
    /\ cap_pos >= 1 => (iex_header = None <=> Len(payload) < 40)
    /\ pc \in {"parse_body", "project"} => iex_header.tag = "Some"

\* the second packet has 39 bytes, the run has ended there and the third packet
\* is never read
C10_Witness ==
    /\ Len(capture) = 3 /\ cap_pos = 2 /\ pc = "panicked"
    /\ Len(payload) = 39
    /\ iex_header = None
    /\ Cardinality(TickPlaces) >= 1

\* the ten fields of a header written back little-endian, each at its offset
\* 0, 1, 2, 4, 8, 12, 14, 16, 24, 32
EncodeHeader(hdr) ==
    <<hdr.version, hdr.reserved>> \o hdr.message_protocol_id \o hdr.channel_id
        \o hdr.session_id \o hdr.payload_length \o hdr.message_count
        \o hdr.stream_offset \o hdr.first_message_sequence_number \o hdr.send_time

\* bytes with byte k (from 0) changed to another value
Flipped(bytes, k) == [bytes EXCEPT ![k + 1] = (@ + 1) % 256]

\* C11: decoding the ten fields of a 40-byte header and re-encoding each field
\* little-endian at its offset reproduces the 40 bytes, and two headers that
\* differ in a byte never decode to the same ten field values.
C11_HeaderRoundTrip ==
    cap_pos >= 1 /\ Len(payload) >= 40 =>
        \E head \in {SubSeq(payload, 1, 40)} : \E decoded \in {parse_header(head)} :
            /\ decoded.tag = "Some"
            /\ iex_header = decoded
            /\ Len(EncodeHeader(decoded.msg)) = 40
            /\ EncodeHeader(decoded.msg) = head
            /\ \A k \in 0..39 : parse_header(Flipped(head, k)) # decoded

\* the header whose forty bytes all differ has been decoded
C11_Witness ==
    /\ cap_pos = 1
    /\ Len(payload) >= 40
    /\ SubSeq(payload, 1, 40) = HeaderBytes(DistinctHdr)
    /\ Cardinality({payload[k] : k \in 1..40}) = 40
    /\ iex_header.tag = "Some"
    /\ iex_header.msg.channel_id = <<11, 12, 13, 14>>

\* C12: in every reachable state each per-symbol tick collection is in capture
\* order: of two ticks at positions i < j under one symbol, the packet index of
\* the first is at most that of the second, and when they are of one packet the
\* sequence number of the first is strictly smaller.
C12_TicksInCaptureOrder ==
    \A s \in DOMAIN stonks_ticks :
        \A i, j \in 1..Len(stonks_ticks[s]) :
            i < j =>
                \E a \in {stonks_ticks[s][i]} : \E b \in {stonks_ticks[s][j]} :
                    \/ a.packet_number < b.packet_number
                    \/ /\ a.packet_number = b.packet_number
                       /\ LessW(a.message_sequence_number, b.message_sequence_number)

\* the records parse_body attempts in the j-th packet of the capture
AttemptsOf(j) ==
    parse_body(Region(PayloadOf(j)), j - 1, capture[j].hdr.first_seq,
               overflow_checks).attempted

\* the number of successfully decoded messages of type byte t in the first n packets
DecodedOfType(t, n) ==
    Cardinality(UNION { { <<j, i>> : i \in { i \in 1..Len(AttemptsOf(j)) :
                                              /\ AttemptsOf(j)[i].response.tag = "Some"
                                              /\ AttemptsOf(j)[i].response.msg.message_type = t } }
                        : j \in 1..n })

\* C13: after any sequence of processed packets the counter of type byte t is
\* the number of successfully decoded messages of type t; a rejected record
\* increments no counter, adds no tick and does not stop the run.
C13_CountersCountDecoded ==
    /\ pc = "next" =>
          \A t \in Byte :
              DecodedOfType(t, packet_counter) =
                  IF t \in DOMAIN tick_type_count THEN tick_type_count[t] ELSE 0
    /\ \A i \in 1..Len(attempted) :
          attempted[i].response.tag # "Some" =>
              /\ attempted[i].response = None
              /\ panic # "index out of bounds"
              /\ \A p \in TickPlaces :
                    \E tick \in {stonks_ticks[p[1]][p[2]]} :
                        ~(/\ tick.packet_number = packet_counter
                          /\ tick.message_sequence_number = attempted[i].seq)
              /\ \A k \in 1..Len(processed) :
                    ~(/\ processed[k].packet_number = packet_counter
                      /\ processed[k].message_sequence_number = attempted[i].seq)

\* the file name without its leading directories
BaseName(path) == SubSeq(path, LastIndexOf(path, "/") + 1, Len(path))

\* the file name of path is a non-empty stem, a '.' and the extension e
HasExtension(path, e) ==
    /\ Len(BaseName(path)) > Len(e) + 1
    /\ SubSeq(BaseName(path), Len(BaseName(path)) - Len(e), Len(BaseName(path))) = <<".">> \o e

\* the file name of path without the extension e and its '.'
StemBefore(path, e) == SubSeq(BaseName(path), 1, Len(BaseName(path)) - Len(e) - 1)

DaysOfMonth == <<31, 28, 31, 30, 31, 30, 31, 31, 30, 31, 30, 31>>

\* s is YYYYMMDD, eight digits that are a date of the calendar
IsCalendarDate(s) ==
    /\ Len(s) = 8
    /\ \A k \in 1..8 : IsDigit(s[k])
    /\ \E y \in {DecimalValue(SubSeq(s, 1, 4))} :
       \E m \in {DecimalValue(SubSeq(s, 5, 6))} :
       \E d \in {DecimalValue(SubSeq(s, 7, 8))} :
           /\ m >= 1 /\ m <= 12 /\ d >= 1
           /\ \/ d <= DaysOfMonth[m]
              \/ m = 2 /\ d = 29 /\ y % 4 = 0 /\ (y % 100 # 0 \/ y % 400 = 0)

CalendarDate(s) ==
    [year |-> DecimalValue(SubSeq(s, 1, 4)), month |-> DecimalValue(SubSeq(s, 5, 6)),
     day |-> DecimalValue(SubSeq(s, 7, 8))]

\* C14: trade_date_from_deep_pcap returns a value for every file name and never
\* aborts: the wrong-extension error when the extension is missing or is neither
\* pcap nor gz, the invalid-date error when the first 8 characters of the stem
\* are not a calendar date (also when the stem has fewer than 8 characters), and
\* otherwise the date of the 8-character prefix.
C14_DeepPcapTradeDate ==
    called = "trade_date_from_deep_pcap" =>
        /\ trade_date.tag \in {"Ok", "Err"}
        /\ \A e \in {<<"p", "c", "a", "p">>, <<"g", "z">>} :
              HasExtension(file_path, e) =>
                  \E stem \in {StemBefore(file_path, e)} :
                      IF Len(stem) >= 8 /\ IsCalendarDate(SubSeq(stem, 1, 8))
                      THEN trade_date = Ok(CalendarDate(SubSeq(stem, 1, 8)))
                      ELSE trade_date = Err("InvalidDate")
        /\ (\A e \in {<<"p", "c", "a", "p">>, <<"g", "z">>} : ~HasExtension(file_path, e)) =>
              trade_date = Err("WrongFileExtension")

\* C15: trade_date_from_h5 returns the wrong-extension error for a path with no
\* extension or an extension other than h5; with extension h5 it returns the
\* invalid-date error when the stem is not a YYYYMMDD calendar date and the
\* date when it is.
C15_H5TradeDate ==
    called = "trade_date_from_h5" =>
        IF HasExtension(file_path, <<"h", "5">>)
        THEN \E stem \in {StemBefore(file_path, <<"h", "5">>)} :
                 IF IsCalendarDate(stem)
                 THEN trade_date = Ok(CalendarDate(stem))
                 ELSE trade_date = Err("InvalidDate")
        ELSE trade_date = Err("WrongFileExtension")

\* one of the additions of the sum of the first n shifted bytes overflows
RECURSIVE SumOverflows(_, _, _, _)
SumOverflows(arr, off, w, n) ==
    IF n = 1 THEN FALSE
    ELSE \/ SumOverflows(arr, off, w, n - 1)
         \/ AddW(SumIndexOffsets(arr, off, w, n - 1), IndexOffset(arr, off, w, n - 1)).overflow

\* main has just read a packet: nothing of its region has been looked at
JustRead == cap_pos >= 1 /\ attempted = <<>> /\ messages = <<>> /\ offset = 0

\* C16: at every offset of a byte slice with width/8 bytes available the 16-,
\* 32- and 64-bit decoders return the little-endian value, the sum of
\* byte[offset+i] * 256^i, and no addition overflows or wraps for any bytes.
C16_DecodersAreLittleEndian ==
    JustRead =>
        /\ \A off \in 0..(Len(payload) - 2) :
              /\ bytes_u16(payload, off) = Field(payload, off, 2)
              /\ AsUsize(bytes_u16(payload, off)) =
                     At(payload, off) + 256 * At(payload, off + 1)
              /\ ~SumOverflows(payload, off, 2, 2)
        /\ \A off \in 0..(Len(payload) - 4) :
              /\ bytes_u32(payload, off) = Field(payload, off, 4)
              /\ ~SumOverflows(payload, off, 4, 4)
        /\ \A off \in 0..(Len(payload) - 8) :
              /\ bytes_u64(payload, off) = Field(payload, off, 8)
              /\ ~SumOverflows(payload, off, 8, 8)

\* a packet has been read that has eight bytes 0xFF in a row, a 64-bit value with
\* every bit set, and bytes that all differ elsewhere
C16_Witness ==
    /\ JustRead
    /\ Len(payload) >= 72
    /\ Field(payload, 16, 8) = MaxU64
    /\ bytes_u64(payload, 16) = MaxU64
    /\ iex_header.tag = "Some"
    /\ iex_header.msg.stream_offset = MaxU64

\* the type bytes parse_message has an arm for, Auction Information aside
DecodedTypes == {ch.S, ch.D, ch.H, ch.O, ch.P, ch.E, ch.d8, ch.d5, ch.T, ch.X, ch.B}

\* C17: every record whose type byte is 'A' or is none of S, D, H, O, P, E, 8, 5,
\* T, X, B is rejected whatever its other bytes are, and is skipped over: the
\* cursor advances by its length L, the sequence number advances by 1 and the
\* records after it in the packet are still attempted.
C17_UnimplementedIsSkipped ==
    \E region \in {Region(payload)} :
    \A i \in 1..Len(attempted) :
        \E a \in {attempted[i]} :
            At(region, a.at) \notin DecodedTypes =>
                /\ a.response = None
                /\ i < Len(attempted) =>
                      /\ attempted[i + 1].at = a.at + a.length + 2
                      /\ attempted[i + 1].seq = AddW(a.seq, ToDigits(1, 8)).val
                /\ i = Len(attempted) =>
                      /\ panic \notin {"index out of bounds", "attempt to add with overflow"}
                      /\ break_at = {} /\ pc = "parse_body" =>
                            /\ offset = a.at + a.length
                            /\ message_seq_num = AddW(a.seq, ToDigits(1, 8)).val
                      /\ pc \notin {"parse_body", "panicked"} =>
                            \/ ~MoreToSegment(region, a.at + a.length)
                            \/ break_at = {a.at + a.length}

\* C18: the segmenter reads a length prefix whenever at least 2 bytes remain from
\* the cursor to the end of the region, also when exactly 2 remain, and stops
\* without reading only when fewer than 2 remain: a trailing non-zero prefix in
\* the last 2 bytes of the region counts as an attempted record.
C18_ReadsPrefixOfLastTwoBytes ==
    pc = "project" /\ break_at = {} =>
        \E region \in {Region(payload)} :
            /\ offset + 2 > Len(region)
            /\ \A k \in 0..Len(region) :
                  (k + 2 = Len(region) /\ (At(region, k) # 0 \/ At(region, k + 1) # 0)
                   /\ (k = 0 \/ \E i \in 1..Len(attempted) :
                                   attempted[i].at + attempted[i].length = k))
                  => \E i \in 1..Len(attempted) : attempted[i].at = k + 2

\* bytes with the header's declared payload length and message count replaced
WithDeclared(bytes, payload_length, message_count) ==
    [k \in 1..Len(bytes) |->
        IF k \in {13, 14} THEN payload_length[k - 12]
        ELSE IF k \in {15, 16} THEN message_count[k - 14]
        ELSE bytes[k]]

\* the messages among the attempted records
RECURSIVE DecodedOf(_)
DecodedOf(att) ==
    IF att = <<>> THEN <<>>
    ELSE (IF Head(att).response.tag = "Some" THEN <<Head(att).response.msg>> ELSE <<>>)
         \o DecodedOf(Tail(att))

\* segmentation of the packet has ended, by return or by panic
BodyEnded == InBody /\ pc # "parse_body"

\* C19: segmentation does not depend on the header's declared payload length or
\* message count: a packet with the same region bytes and first sequence number
\* gives the same sequence of decoded messages whatever those two fields are
\* (the number of records attempted can be larger or smaller than the declared
\* count).
C19_DeclaredFieldsAreIgnored ==
    BodyEnded =>
        \A pl \in {<<0, 0>>, <<255, 255>>} : \A mc \in {<<0, 0>>, <<1, 0>>, <<255, 255>>} :
            \E other \in {WithDeclared(payload, pl, mc)} :
            \E hdr \in {parse_header(other)} :
            \E body \in {parse_body(Region(other), packet_counter,
                                    hdr.msg.first_message_sequence_number,
                                    overflow_checks)} :
                /\ HeaderVersionOk(hdr.msg) /\ HeaderProtocolOk(hdr.msg)
                /\ body.attempted = attempted
                /\ body.messages = DecodedOf(attempted)
                /\ body.offset = offset

\* two records have been attempted and decoded in a packet that declares a
\* payload of 0x201f bytes and 0x2a29 messages
C19_Witness ==
    /\ BodyEnded
    /\ pc = "project"
    /\ Len(attempted) = 2
    /\ Len(DecodedOf(attempted)) = 2
    /\ iex_header.msg.message_count = <<41, 42>>
    /\ iex_header.msg.payload_length = <<31, 32>>
    /\ Len(Region(payload)) = 72

\* the iterations the while loop of parse_body has run for the packet
Iterations == Len(attempted) + Cardinality(break_at)

\* C20: segmentation of a finite region terminates: an iteration stops on a zero
\* length or advances the cursor by 2 + L with L >= 1, so the cursor strictly
\* increases and the loop runs at most floor(len/3) + 1 times (the cursor may
\* end beyond the end of the region).
C20_SegmentationTerminates ==
    InBody =>
        \E region \in {Region(payload)} :
            /\ Iterations <= (Len(region) \div 3) + 1
            /\ \A i \in 1..Len(attempted) :
                  /\ attempted[i].length >= 1
                  /\ attempted[i].at = IF i = 1 THEN 2
                                       ELSE attempted[i - 1].at + attempted[i - 1].length + 2
                  /\ MoreToSegment(region, attempted[i].at - 2)
            /\ \A k \in break_at :
                  /\ MoreToSegment(region, k)
                  /\ k = IF attempted = <<>> THEN 0
                         ELSE attempted[Len(attempted)].at + attempted[Len(attempted)].length
                  /\ pc # "parse_body"
            /\ pc # "panicked" /\ break_at = {} =>
                  offset = IF attempted = <<>> THEN 0
                           ELSE attempted[Len(attempted)].at + attempted[Len(attempted)].length
            /\ pc = "project" /\ break_at = {} => ~MoreToSegment(region, offset)

\* the loop has ended with the cursor beyond the end of the region: the one
\* record's prefix says 40 bytes and 10 are there
C20_Witness ==
    /\ pc = "project"
    /\ Len(attempted) = 1
    /\ attempted[1].length = 40
    /\ Len(Region(payload)) = 12
    /\ offset = 42
    /\ break_at = {}

\* the packet's header is fatal: too short, or of another version or protocol
FatalHeader(bytes) == Len(bytes) < 40 \/ MismatchedHeader(bytes)

\* the capture name has extension e and a stem that begins with a calendar date
DatedName(path, e) ==
    /\ HasExtension(path, e)
    /\ Len(StemBefore(path, e)) >= 8
    /\ IsCalendarDate(SubSeq(StemBefore(path, e), 1, 8))

\* C21: the output container is opened and datasets are written only after every
\* packet of the capture has been processed without a fatal condition and the
\* trade date has been derived from the capture name: with a packet of a
\* too-short or mismatched header, or a name that yields no trade date, no
\* container is created and no tick is written.
C21_OutputOnlyAfterAllPackets ==
    /\ h5_file # None \/ DOMAIN datasets # {} =>
          /\ pc \in {"write_output", "done", "panicked"}
          /\ cap_pos = Len(capture) /\ packet_counter = Len(capture)
          /\ \A j \in 1..Len(capture) : ~FatalHeader(PayloadOf(j))
          /\ \E e \in {<<"p", "c", "a", "p">>, <<"g", "z">>} :
                /\ DatedName(file_path, e)
                /\ h5_file = Some(SubSeq(StemBefore(file_path, e), 1, 8) \o <<".", "h", "5">>)
                /\ trade_date = Ok(CalendarDate(SubSeq(StemBefore(file_path, e), 1, 8)))
          /\ \A sym \in DOMAIN datasets :
                /\ sym \in DOMAIN stonks_ticks
                /\ datasets[sym] # <<>> => datasets[sym] = stonks_ticks[sym]
    /\ (\/ \E j \in 1..Len(capture) : FatalHeader(PayloadOf(j))
        \/ \A e \in {<<"p", "c", "a", "p">>, <<"g", "z">>} : ~DatedName(file_path, e)) =>
          /\ h5_file = None
          /\ datasets = EmptyMap
          /\ pc \notin {"open_output", "write_output", "done"}
    /\ pc = "done" => h5_file # None /\ datasets = stonks_ticks

\* both packets of a capture are processed, the date is derived and the
\* container holds the datasets of the two symbols
C21_Witness ==
    /\ pc = "done"
    /\ Len(capture) = 2 /\ packet_counter = 2
    /\ h5_file = Some(<<"2", "0", "1", "9", "0", "7", "0", "3", ".", "h", "5">>)
    /\ Cardinality(DOMAIN datasets) = 2
    /\ datasets = stonks_ticks

=============================================================================
